---- MODULE Spec2Model ----
(***************************************************************************)
(* A model of models/backbone_frozen.py: the frozen batch normalisation    *)
(* operator, the ResNet feature extractor with its two extraction paths    *)
(* (forward, support_encoding_net) and the Joiner that orders the levels   *)
(* and pairs each with a positional encoding.                              *)
(*                                                                         *)
(* A tensor is kept by what the code can observe of it: the input it was   *)
(* computed from, the trunk stages applied to it in order, and its shape.  *)
(* A padding mask is kept as its shape and the extent of the valid region  *)
(* (mask[y][x] is True iff y >= vh or x >= vw), which is how a padded      *)
(* batch marks its padding; the batch dimension is carried through the     *)
(* code untouched and is left out.                                         *)
(***************************************************************************)
EXTENDS Integers, Sequences, FiniteSets, TLC

VARIABLES
    pc,             \* "new" before construction, "ready" after, "rejected" when construction raised
    return_layers,  \* BackboneBase.body's return_layers: trunk stage -> level key
    strides,        \* BackboneBase.strides
    num_channels,   \* BackboneBase.num_channels
    dilation,       \* args.dilation, as the trunk was built with
    j_strides,      \* Joiner.strides
    j_num_channels, \* Joiner.num_channels
    first,          \* the first extraction call made on a probe batch, with what it returned
    call,           \* the latest extraction call, with what it returned
    weight, bias, running_mean, running_var, eps,   \* FrozenBatchNorm2d buffers and eps
    loaded,         \* the latest state_dict handed to _load_from_state_dict, and what the load reported
    bn_out          \* the latest FrozenBatchNorm2d.forward: input and output

ext_vars == <<pc, return_layers, strides, num_channels, dilation, j_strides, j_num_channels, first, call>>
bn_vars == <<weight, bias, running_mean, running_var, eps, loaded, bn_out>>
vars == <<ext_vars, bn_vars>>

----------------------------------------------------------------------------
(* Bounds *)

\* the larger of the two input extents tried; the smaller is MaxDim - DimGap
MaxDim == 33
DimGap == 16

\* the floating-point format of the normalisation, scaled down: a finite value
\* is a whole number of steps of 1/FUnit, of magnitude at most FMax steps
FUnit == 4
FMax == 64

----------------------------------------------------------------------------
(* The trunk: a torchvision ResNet with Bottleneck blocks *)

Cdiv2(n) == (n + 1) \div 2

\* the named children of the trunk that IntermediateLayerGetter keeps, in order
Children == <<"conv1", "bn1", "relu", "maxpool", "layer1", "layer2", "layer3", "layer4">>

\* module(x) for one named child of the trunk
ApplyStage(stage, t, dil) ==
    LET halved(c) == [t EXCEPT !.path = Append(@, stage), !.c = c,
                               !.h = Cdiv2(@), !.w = Cdiv2(@), !.stride = @ * 2]
        same(c) == [t EXCEPT !.path = Append(@, stage), !.c = c]
    IN CASE stage = "conv1" -> halved(64)
         [] stage = "bn1" -> same(t.c)
         [] stage = "relu" -> same(t.c)
         [] stage = "maxpool" -> halved(t.c)
         [] stage = "layer1" -> same(256)
         [] stage = "layer2" -> halved(512)
         [] stage = "layer3" -> halved(1024)
         [] stage = "layer4" -> IF dil THEN same(2048) ELSE halved(2048)

----------------------------------------------------------------------------
(* Masks *)

NoneMask == [isNone |-> TRUE, h |-> 0, w |-> 0, vh |-> 0, vw |-> 0]

\* nearest-neighbour resize of one axis: output index i reads input index
\* floor(i * in / out); the result is the number of output indices that read
\* a valid (False) input index
NearestExtent(in, out, valid) == Cardinality({i \in 0..(out - 1) : (i * in) \div out < valid})

\* Interpolate with the target size taken from the mask's extent and the level's
\* nominal stride instead of from the activation
InterpolateByStride(m, x) ==
    [isNone |-> FALSE, h |-> m.h \div x.stride, w |-> m.w \div x.stride,
     vh |-> NearestExtent(m.h, m.h \div x.stride, m.vh),
     vw |-> NearestExtent(m.w, m.w \div x.stride, m.vw)]

\* F.interpolate(m[None].float(), size=x.shape[-2:]).to(torch.bool)[0]
Interpolate(m, x) ==
    [isNone |-> FALSE, h |-> x.h, w |-> x.w,
     vh |-> NearestExtent(m.h, x.h, m.vh), vw |-> NearestExtent(m.w, x.w, m.vw)]

NestedTensor(t, m) == [tensors |-> t, mask |-> m]

----------------------------------------------------------------------------
(* Inputs *)

Dims == {MaxDim - DimGap, MaxDim}

\* an image batch as the caller builds it: 3 channels, not yet through any stage
Image(h, w, dt) == [path |-> <<>>, c |-> 3, h |-> h, w |-> w, stride |-> 1, dtype |-> dt]

\* a mask with padding on both axes
PaddedMask(h, w) == [isNone |-> FALSE, h |-> h, w |-> w, vh |-> h - DimGap \div 2, vw |-> w - 1]

\* the masks tried for an h x w batch: none, padding on both axes, and an
\* unpadded mask of another extent than the image
MasksFor(h, w) ==
    {NoneMask,
     PaddedMask(h, w),
     [isNone |-> FALSE, h |-> MaxDim, w |-> MaxDim - DimGap, vh |-> MaxDim, vw |-> MaxDim - DimGap]}

\* batches of two heights, the lower one in half precision
Inputs ==
    UNION {{NestedTensor(Image(h, MaxDim, IF h = MaxDim THEN "float32" ELSE "float16"), m) :
                m \in MasksFor(h, MaxDim)} : h \in Dims}

\* the batch whose first call is remembered, to compare later calls with
Probes == {NestedTensor(Image(MaxDim, MaxDim, "float32"), PaddedMask(MaxDim, MaxDim))}

Names == {"resnet18", "resnet34", "resnet50", "resnet101"}

----------------------------------------------------------------------------
(* BackboneBase and Backbone *)

\* BackboneBase.__init__ tapping layer1 to layer3 in multi-level mode
BackboneBaseInitShallow(return_interm_layers) ==
    IF return_interm_layers
    THEN [return_layers |-> [layer1 |-> "0", layer2 |-> "1", layer3 |-> "2"],
          strides |-> <<8, 16, 32>>,
          num_channels |-> <<512, 1024, 2048>>]
    ELSE [return_layers |-> [layer4 |-> "0"],
          strides |-> <<32>>,
          num_channels |-> <<2048>>]

\* BackboneBase.__init__: the tapped stages and the static metadata
BackboneBaseInit(return_interm_layers) ==
    IF return_interm_layers
    THEN [return_layers |-> [layer2 |-> "0", layer3 |-> "1", layer4 |-> "2"],
          strides |-> <<8, 16, 32>>,
          num_channels |-> <<512, 1024, 2048>>]
    ELSE [return_layers |-> [layer4 |-> "0"],
          strides |-> <<32>>,
          num_channels |-> <<2048>>]

\* the assertion of Backbone.__init__ on the trunk's name
NameAccepted(n) == n \notin {"resnet18", "resnet34"}

\* Backbone.__init__ without the adjustment for dilation
BackboneInitUndilated(return_interm_layers, dil) == BackboneBaseInit(return_interm_layers)

\* Backbone.__init__ after the assertion: BackboneBase.__init__, then the last
\* stride halved when the trunk was built with dilation
BackboneInit(return_interm_layers, dil) ==
    LET base == BackboneBaseInit(return_interm_layers)
    IN IF dil
       THEN [base EXCEPT !.strides = [@ EXCEPT ![Len(@)] = @ \div 2]]
       ELSE base

\* a result of an extraction: the dict returned, as its items in insertion
\* order, or the exception raised
Returned(items) == [status |-> "ok", out |-> items]
Raised(exc) == [status |-> exc, out |-> <<>>]

Item(key, value) == [key |-> key, value |-> value]

\* IntermediateLayerGetter.forward: run the children in order from child i on,
\* keep the output of each child named in return_layers under its key
RECURSIVE GetLayers(_, _, _, _)
GetLayers(i, t, rl, dil) ==
    IF i > Len(Children) THEN <<>>
    ELSE LET y == ApplyStage(Children[i], t, dil)
         IN (IF Children[i] \in DOMAIN rl THEN <<Item(rl[Children[i]], y)>> ELSE <<>>)
            \o GetLayers(i + 1, y, rl, dil)

\* BackboneBase.forward filling a dict kept from the call before instead of a
\* fresh one: the levels of that call stay under the keys this one does not write
ForwardSharedOut(rl, dil, tensor_list) ==
    LET xs == GetLayers(1, tensor_list.tensors, rl, dil)
        m == tensor_list.mask
        fresh == [i \in 1..Len(xs) |->
                    Item(xs[i].key, NestedTensor(xs[i].value, Interpolate(m, xs[i].value)))]
        stale == SelectSeq(call.xs, LAMBDA it : \A i \in 1..Len(xs) : xs[i].key # it.key)
    IN IF Len(xs) > 0 /\ m.isNone
       THEN Raised("AssertionError")
       ELSE Returned(fresh \o stale)

\* BackboneBase.forward without the assertion, an absent mask handed on as it is
ForwardUnchecked(rl, dil, tensor_list) ==
    LET xs == GetLayers(1, tensor_list.tensors, rl, dil)
        m == tensor_list.mask
    IN Returned([i \in 1..Len(xs) |->
            Item(xs[i].key, NestedTensor(xs[i].value,
                 IF m.isNone THEN NoneMask ELSE Interpolate(m, xs[i].value)))])

\* BackboneBase.forward
Forward(rl, dil, tensor_list) ==
    LET xs == GetLayers(1, tensor_list.tensors, rl, dil)
        m == tensor_list.mask
    IN IF Len(xs) > 0 /\ m.isNone
       THEN Raised("AssertionError")
       ELSE Returned([i \in 1..Len(xs) |->
                Item(xs[i].key, NestedTensor(xs[i].value, Interpolate(m, xs[i].value)))])

\* BackboneBase.support_encoding_net resizing the mask of level '1' before
\* layer3 has run, to the extent of the layer2 activation
SupportStaleMask(dil, x, return_interm_layers) ==
    LET m == x.mask
        stem == ApplyStage("maxpool", ApplyStage("relu", ApplyStage("bn1",
                    ApplyStage("conv1", x.tensors, dil), dil), dil), dil)
        x2 == ApplyStage("layer2", ApplyStage("layer1", stem, dil), dil)
        x3 == ApplyStage("layer3", x2, dil)
        x4 == ApplyStage("layer4", x3, dil)
    IN IF m.isNone
       THEN Raised("TypeError")
       ELSE IF return_interm_layers
            THEN Returned(<<Item("0", NestedTensor(x2, Interpolate(m, x2))),
                            Item("1", NestedTensor(x3, Interpolate(m, x2))),
                            Item("2", NestedTensor(x4, Interpolate(m, x4)))>>)
            ELSE Returned(<<Item("0", NestedTensor(x4, Interpolate(m, x4)))>>)

\* BackboneBase.support_encoding_net tapping the three stages whatever the flag
SupportAlwaysInterm(dil, x, return_interm_layers) ==
    LET m == x.mask
        stem == ApplyStage("maxpool", ApplyStage("relu", ApplyStage("bn1",
                    ApplyStage("conv1", x.tensors, dil), dil), dil), dil)
        x2 == ApplyStage("layer2", ApplyStage("layer1", stem, dil), dil)
        x3 == ApplyStage("layer3", x2, dil)
        x4 == ApplyStage("layer4", x3, dil)
    IN IF m.isNone
       THEN Raised("TypeError")
       ELSE Returned(<<Item("0", NestedTensor(x2, Interpolate(m, x2))),
                       Item("1", NestedTensor(x3, Interpolate(m, x3))),
                       Item("2", NestedTensor(x4, Interpolate(m, x4)))>>)

\* BackboneBase.support_encoding_net
SupportEncodingNet(dil, x, return_interm_layers) ==
    LET m == x.mask
        stem == ApplyStage("maxpool", ApplyStage("relu", ApplyStage("bn1",
                    ApplyStage("conv1", x.tensors, dil), dil), dil), dil)
        x2 == ApplyStage("layer2", ApplyStage("layer1", stem, dil), dil)
        x3 == ApplyStage("layer3", x2, dil)
        x4 == ApplyStage("layer4", x3, dil)
    IN IF m.isNone
       THEN Raised("TypeError")
       ELSE IF return_interm_layers
            THEN Returned(<<Item("0", NestedTensor(x2, Interpolate(m, x2))),
                            Item("1", NestedTensor(x3, Interpolate(m, x3))),
                            Item("2", NestedTensor(x4, Interpolate(m, x4)))>>)
            ELSE Returned(<<Item("0", NestedTensor(x4, Interpolate(m, x4)))>>)

----------------------------------------------------------------------------
(* Joiner *)

\* the order of Python's str comparison on the level keys
KeyRank(k) == CASE k = "0" -> 0 [] k = "1" -> 1 [] k = "2" -> 2

\* xs.items() taken in the dict's own order
Unsorted(items) == items

\* sorted(xs.items()): ascending by key (keys of a dict are distinct, so the
\* values are never compared)
RECURSIVE Sorted(_)
Sorted(items) ==
    IF Len(items) = 0 THEN <<>>
    ELSE LET least == CHOOSE i \in 1..Len(items) :
                        \A j \in 1..Len(items) : KeyRank(items[i].key) <= KeyRank(items[j].key)
         IN <<items[least]>> \o
            Sorted(SubSeq(items, 1, least - 1) \o SubSeq(items, least + 1, Len(items)))

\* self[1](x): the positional encoding of a level, computed in float32
PositionEmbedding(x) == [of |-> x, dtype |-> "float32"]

\* .to(dtype)
To(t, dtype) == [t EXCEPT !.dtype = dtype]

\* the body shared by Joiner.forward and Joiner.forward_supp_branch, after the
\* extraction: sort by key, then encode each level
Compose(xs) ==
    LET out == [i \in 1..Len(xs) |-> Sorted(xs)[i].value]
        pos == [i \in 1..Len(out) |-> To(PositionEmbedding(out[i]), out[i].tensors.dtype)]
    IN [features |-> out, pos |-> pos]

\* the orders in which a dict of n items may hand its items to sorted(): the
\* Joiner sorts whatever its first child returns, so no order is assumed of it
Orders(n) == {p \in [1..n -> 1..n] : \A i, j \in 1..n : i # j => p[i] # p[j]}
Reordered(items, p) == [i \in 1..Len(items) |-> items[p[i]]]

----------------------------------------------------------------------------
(* The extractor and the Joiner as a state machine *)

\* the return_interm_layers argument of a support-branch call, which may be left out
FlagArgs == {"omitted", "True", "False"}

\* return_interm_layers=False: the parameter's value for an argument
FlagOf(arg) == IF arg = "omitted" THEN FALSE ELSE arg = "True"

NoInput == NestedTensor(Image(0, 0, "float32"), NoneMask)

\* an extraction call and what it gave: xs is the dict the extractor returned
\* (its items in the order they were handed on), features and pos what a Joiner
\* entry point returned
Call(op, x, arg, res, xs, composed) ==
    [op |-> op, x |-> x, omitted |-> (arg = "omitted"), flag |-> FlagOf(arg),
     status |-> res.status, xs |-> xs,
     features |-> composed.features, pos |-> composed.pos]

NoCall == Call("none", NoInput, "omitted", Raised("none"), <<>>, Compose(<<>>))

Record(c) ==
    /\ call' = c
    /\ first' = IF first.op = "none" /\ c.x \in Probes THEN c ELSE first

ExtInit ==
    /\ pc = "new"
    /\ return_layers = [layer4 |-> "0"]
    /\ strides = <<>>
    /\ num_channels = <<>>
    /\ dilation = FALSE
    /\ j_strides = <<>>
    /\ j_num_channels = <<>>
    /\ first = NoCall
    /\ call = NoCall

\* build_backbone: Backbone(name, ...), then Joiner(backbone, position_embedding)
BuildBackbone(n, return_interm_layers, dil) ==
    /\ pc = "new"
    /\ IF NameAccepted(n)
       THEN LET b == BackboneInit(return_interm_layers, dil)
            IN /\ pc' = "ready"
               /\ return_layers' = b.return_layers
               /\ strides' = b.strides
               /\ num_channels' = b.num_channels
               /\ dilation' = dil
               /\ j_strides' = b.strides
               /\ j_num_channels' = b.num_channels
       ELSE /\ pc' = "rejected"
            /\ UNCHANGED <<return_layers, strides, num_channels, dilation, j_strides, j_num_channels>>
    /\ UNCHANGED <<first, call, bn_vars>>

\* backbone(tensor_list)
CallForward(x) ==
    /\ pc = "ready"
    /\ LET res == Forward(return_layers, dilation, x)
       IN Record(Call("forward", x, "omitted", res, res.out, Compose(<<>>)))
    /\ UNCHANGED <<pc, return_layers, strides, num_channels, dilation, j_strides, j_num_channels, bn_vars>>

\* backbone.support_encoding_net(x, return_interm_layers)
CallSupport(x, arg) ==
    /\ pc = "ready"
    /\ LET res == SupportEncodingNet(dilation, x, FlagOf(arg))
       IN Record(Call("support_encoding_net", x, arg, res, res.out, Compose(<<>>)))
    /\ UNCHANGED <<pc, return_layers, strides, num_channels, dilation, j_strides, j_num_channels, bn_vars>>

\* Joiner.forward(tensor_list)
JoinerForward(x) ==
    /\ pc = "ready"
    /\ LET res == Forward(return_layers, dilation, x)
       IN \E p \in Orders(Len(res.out)) :
            LET xs == Reordered(res.out, p)
            IN Record(Call("Joiner.forward", x, "omitted", res, xs,
                           IF res.status = "ok" THEN Compose(xs) ELSE Compose(<<>>)))
    /\ UNCHANGED <<pc, return_layers, strides, num_channels, dilation, j_strides, j_num_channels, bn_vars>>

\* Joiner.forward_supp_branch(tensor_list, return_interm_layers)
JoinerForwardSuppBranch(x, arg) ==
    /\ pc = "ready"
    /\ LET res == SupportEncodingNet(dilation, x, FlagOf(arg))
       IN \E p \in Orders(Len(res.out)) :
            LET xs == Reordered(res.out, p)
            IN Record(Call("Joiner.forward_supp_branch", x, arg, res, xs,
                           IF res.status = "ok" THEN Compose(xs) ELSE Compose(<<>>)))
    /\ UNCHANGED <<pc, return_layers, strides, num_channels, dilation, j_strides, j_num_channels, bn_vars>>

----------------------------------------------------------------------------
(* Floating-point arithmetic: finite values, the two infinities and NaN *)

PInf == [k |-> "inf", v |-> 1]
NInf == [k |-> "inf", v |-> -1]
NaN == [k |-> "nan", v |-> 0]

\* the value of n steps: out of range it overflows to an infinity
Fin(n) == IF n > FMax THEN PInf ELSE IF n < -FMax THEN NInf ELSE [k |-> "fin", v |-> n]

Abs(n) == IF n < 0 THEN -n ELSE n
Sign(n) == IF n < 0 THEN -1 ELSE IF n > 0 THEN 1 ELSE 0
ISqrt(n) == CHOOSE r \in 0..n : r * r <= n /\ (r + 1) * (r + 1) > n

IsFinite(a) == a.k = "fin"

\* a + b
FAdd(a, b) ==
    IF a.k = "nan" \/ b.k = "nan" THEN NaN
    ELSE IF a.k = "inf" /\ b.k = "inf" THEN (IF a.v = b.v THEN a ELSE NaN)
    ELSE IF a.k = "inf" THEN a
    ELSE IF b.k = "inf" THEN b
    ELSE Fin(a.v + b.v)

\* a * b
FMul(a, b) ==
    IF a.k = "nan" \/ b.k = "nan" THEN NaN
    ELSE IF a.k = "inf" \/ b.k = "inf"
         THEN (IF Sign(a.v) * Sign(b.v) = 0 THEN NaN
               ELSE IF Sign(a.v) * Sign(b.v) > 0 THEN PInf ELSE NInf)
    ELSE Fin(Sign(a.v) * Sign(b.v) * ((Abs(a.v) * Abs(b.v)) \div FUnit))

\* a - b
FSub(a, b) == FAdd(a, [b EXCEPT !.v = -@])

\* a.rsqrt(): 1 / sqrt(a)
FRsqrt(a) ==
    IF a.k = "nan" THEN NaN
    ELSE IF a.k = "inf" THEN (IF a.v > 0 THEN Fin(0) ELSE NaN)
    ELSE IF a.v < 0 THEN NaN
    ELSE IF a.v = 0 THEN PInf
    ELSE Fin(ISqrt((FUnit * FUnit * FUnit) \div a.v))

----------------------------------------------------------------------------
(* FrozenBatchNorm2d, one channel of it *)

\* FrozenBatchNorm2d.forward with eps added after the reciprocal square root
NormForwardEpsAfter(w, b, rv, rm, e, x) ==
    LET rs == FAdd(FRsqrt(rv), e)
        scale == FMul(w, rs)
        shift == FSub(b, FMul(rm, scale))
    IN [called |-> TRUE, x |-> x, rs |-> rs, scale |-> scale, bias |-> shift,
        y |-> FAdd(FMul(x, scale), shift)]

\* FrozenBatchNorm2d.forward on one element of the channel
NormForward(w, b, rv, rm, e, x) ==
    LET rs == FRsqrt(FAdd(rv, e))
        scale == FMul(w, rs)
        shift == FSub(b, FMul(rm, scale))
    IN [called |-> TRUE, x |-> x, rs |-> rs, scale |-> scale, bias |-> shift,
        y |-> FAdd(FMul(x, scale), shift)]

NoOutput == [called |-> FALSE, x |-> Fin(0), rs |-> Fin(0), scale |-> Fin(0), bias |-> Fin(0),
             y |-> Fin(0)]

\* a key of a state_dict: prefix + name
Key(prefix, n) == [prefix |-> prefix, name |-> n]

\* the prefix under which the trunk's state_dict holds this module, and that of
\* another module of the trunk
OwnPrefix == "bn1."
OtherPrefix == "layer1.0.bn1."

BufferNames == {"weight", "bias", "running_mean", "running_var"}

Buffers(w, b, rm, rv) == [weight |-> w, bias |-> b, running_mean |-> rm, running_var |-> rv]

\* nn.Module._load_from_state_dict for a module whose local state is the four
\* buffers: copy each buffer whose key is present, report the absent ones and
\* the keys under the prefix that name no buffer when strict
ModuleLoadFromStateDict(bufs, state_dict, prefix, strict) ==
    [buffers |-> [n \in BufferNames |->
                    IF Key(prefix, n) \in DOMAIN state_dict THEN state_dict[Key(prefix, n)]
                    ELSE bufs[n]],
     state_dict |-> state_dict,
     missing_keys |-> IF strict
                      THEN {Key(prefix, n) : n \in {m \in BufferNames : Key(prefix, m) \notin DOMAIN state_dict}}
                      ELSE {},
     unexpected_keys |-> IF strict
                         THEN {key \in DOMAIN state_dict : key.prefix = prefix /\ key.name \notin BufferNames}
                         ELSE {}]

\* FrozenBatchNorm2d._load_from_state_dict handing the state_dict on as it came
LoadKeepingCounter(bufs, state_dict, prefix, strict) ==
    ModuleLoadFromStateDict(bufs, state_dict, prefix, strict)

\* FrozenBatchNorm2d._load_from_state_dict
LoadFromStateDict(bufs, state_dict, prefix, strict) ==
    LET num_batches_tracked_key == Key(prefix, "num_batches_tracked")
        kept == IF num_batches_tracked_key \in DOMAIN state_dict
                THEN [key \in DOMAIN state_dict \ {num_batches_tracked_key} |-> state_dict[key]]
                ELSE state_dict
    IN ModuleLoadFromStateDict(bufs, kept, prefix, strict)

----------------------------------------------------------------------------
(* FrozenBatchNorm2d as a state machine *)

NotLoaded ==
    [called |-> FALSE, state_dict |-> <<>>, strict |-> FALSE,
     before |-> Buffers(Fin(0), Fin(0), Fin(0), Fin(0)),
     missing_keys |-> {}, unexpected_keys |-> {}]

\* FrozenBatchNorm2d.__init__(n, eps): ones, zeros, zeros, ones; the smallest
\* positive step stands for the default eps
NormInit ==
    /\ weight = Fin(FUnit)
    /\ bias = Fin(0)
    /\ running_mean = Fin(0)
    /\ running_var = Fin(FUnit)
    /\ eps = Fin(1)
    /\ loaded = NotLoaded
    /\ bn_out = NoOutput

\* the checkpoint the persisted parameter sets are cut from
Checkpoint ==
    [key \in {Key(OwnPrefix, n) : n \in BufferNames \cup {"num_batches_tracked"}}
             \cup {Key(OtherPrefix, "num_batches_tracked")} |->
        CASE key.name = "weight" -> Fin(2 * FUnit)
          [] key.name = "bias" -> Fin(FUnit)
          [] key.name = "running_mean" -> Fin(-FUnit)
          [] key.name = "running_var" -> Fin(0)
          [] key.name = "num_batches_tracked" -> Fin(0)]

StateDicts == {[key \in D |-> Checkpoint[key]] : D \in SUBSET DOMAIN Checkpoint}

\* module._load_from_state_dict(state_dict, prefix, ..., strict, ...)
Load(state_dict, strict) ==
    LET before == Buffers(weight, bias, running_mean, running_var)
        r == LoadFromStateDict(before, state_dict, OwnPrefix, strict)
    IN /\ weight' = r.buffers.weight
       /\ bias' = r.buffers.bias
       /\ running_mean' = r.buffers.running_mean
       /\ running_var' = r.buffers.running_var
       /\ loaded' = [called |-> TRUE, state_dict |-> state_dict, strict |-> strict,
                     before |-> before,
                     missing_keys |-> r.missing_keys, unexpected_keys |-> r.unexpected_keys]
       /\ UNCHANGED <<eps, bn_out, ext_vars>>

\* module(x)
Normalize(x) ==
    /\ bn_out' = NormForward(weight, bias, running_var, running_mean, eps, x)
    /\ UNCHANGED <<weight, bias, running_mean, running_var, eps, loaded, ext_vars>>

\* the values a loaded buffer, eps and an input element are drawn from
WeightVals == {Fin(-FUnit), Fin(0), Fin(FUnit), Fin(FMax)}
BiasVals == {Fin(0), Fin(FMax)}
MeanVals == {Fin(-FMax), Fin(0), Fin(FUnit)}
VarVals == {Fin(-1), Fin(0), Fin(1), Fin(FUnit), Fin(FMax)}
EpsVals == {Fin(0), Fin(1), Fin(FUnit)}
ElementVals == {Fin(-FMax), Fin(0), Fin(FUnit), Fin(FMax), PInf}

----------------------------------------------------------------------------
(* Specifications *)

\* the extractor and the Joiner, from construction on
Init == ExtInit /\ NormInit

Next ==
    \/ \E n \in Names, ril \in BOOLEAN, dil \in BOOLEAN : BuildBackbone(n, ril, dil)
    \/ \E x \in Inputs : CallForward(x)
    \/ \E x \in Inputs, arg \in FlagArgs : CallSupport(x, arg)
    \/ \E x \in Inputs : JoinerForward(x)
    \/ \E x \in Inputs, arg \in FlagArgs : JoinerForwardSuppBranch(x, arg)

Spec == Init /\ [][Next]_vars

\* loading persisted parameter sets into a FrozenBatchNorm2d
LoadInit == ExtInit /\ NormInit

LoadNext == \E sd \in StateDicts, strict \in BOOLEAN : Load(sd, strict)

SpecLoad == LoadInit /\ [][LoadNext]_vars

\* FrozenBatchNorm2d.forward over the buffers a load can leave
NormValuesInit ==
    /\ ExtInit
    /\ weight \in WeightVals
    /\ bias \in BiasVals
    /\ running_mean \in MeanVals
    /\ running_var \in VarVals
    /\ eps \in EpsVals
    /\ loaded = NotLoaded
    /\ bn_out = NoOutput

NormNext == \E x \in ElementVals : Normalize(x)

SpecNorm == NormValuesInit /\ [][NormNext]_vars

----------------------------------------------------------------------------
(* Properties *)

\* the construction-time mode, as BackboneBase.body holds it
MultiLevel == "layer2" \in DOMAIN return_layers

Range(seq) == {seq[i] : i \in 1..Len(seq)}

PrimaryOps == {"forward", "Joiner.forward"}
SupportOps == {"support_encoding_net", "Joiner.forward_supp_branch"}
JoinerOps == {"Joiner.forward", "Joiner.forward_supp_branch"}

\* C1: every level an extraction returns, primary or support-branch with either
\* flag, pairs its activation with a mask of the activation's height and width
C1_MaskMatchesTensor ==
    call.status = "ok" =>
        \A i \in 1..Len(call.xs) :
            /\ call.xs[i].value.mask.h = call.xs[i].value.tensors.h
            /\ call.xs[i].value.mask.w = call.xs[i].value.tensors.w

\* a support-branch extraction of three levels from a batch whose mask has
\* another extent than its image
C1_Witness ==
    /\ call.op = "support_encoding_net"
    /\ call.status = "ok"
    /\ Len(call.xs) = 3
    /\ call.x.mask.h # call.x.tensors.h
    /\ call.xs[1].value.tensors.h # call.xs[2].value.tensors.h

\* C2: both Joiner entry points return as many features and positions as the
\* extractor produced levels, the features ascending by level key in whatever
\* order the levels were handed over, and positions[i] the encoding of features[i]
C2_SortedAndAligned ==
    (call.op \in JoinerOps /\ call.status = "ok") =>
        LET L == Len(call.xs)
        IN /\ Len(call.features) = L
           /\ Len(call.pos) = L
           /\ \A i \in 1..L :
                \E j \in 1..L :
                    /\ call.xs[j].value = call.features[i]
                    /\ Cardinality({k \in 1..L : KeyRank(call.xs[k].key) < KeyRank(call.xs[j].key)}) = i - 1
           /\ \A i \in 1..L :
                /\ call.pos[i].of = call.features[i]
                /\ call.pos[i].dtype = call.features[i].tensors.dtype

\* a Joiner call whose three levels arrived deepest first, in half precision
C2_Witness ==
    /\ call.op = "Joiner.forward_supp_branch"
    /\ call.status = "ok"
    /\ Len(call.xs) = 3
    /\ call.xs[1].key = "2"
    /\ call.xs[3].key = "0"
    /\ call.x.tensors.dtype = "float16"

\* C6: a call on a batch without a mask, primary or support-branch with either
\* flag, ends in an error and returns no levels
C6_NoMaskRaises ==
    (call.op # "none" /\ call.x.mask.isNone) =>
        /\ call.status # "ok"
        /\ Len(call.xs) = 0
        /\ Len(call.features) = 0

\* a primary extraction called on a batch without a mask
C6_Witness ==
    /\ call.op = "forward"
    /\ call.x.mask.isNone
    /\ call.status = "AssertionError"

\* the number of levels a primary extraction returns in the constructed mode
PrimaryLevels ==
    (call.op \in PrimaryOps /\ call.status = "ok") => Len(call.xs) = (IF MultiLevel THEN 3 ELSE 1)

\* C3 as stated: a multi-level extractor has strides [8,16,32] (the last 16 with
\* dilation), channel counts [512,1024,2048] and three primary levels; a
\* single-level one has strides [32], channel counts [2048] and one primary level
C3_AsStated ==
    pc = "ready" =>
        /\ PrimaryLevels
        /\ IF MultiLevel
           THEN /\ strides = <<8, 16, IF dilation THEN 16 ELSE 32>>
                /\ num_channels = <<512, 1024, 2048>>
           ELSE /\ strides = <<32>>
                /\ num_channels = <<2048>>

\* C3, amended: as stated, but the single stride of a single-level extractor is
\* halved by dilation too: [16] with dilation, [32] without
C3_StridesAndLevels ==
    pc = "ready" =>
        /\ PrimaryLevels
        /\ IF MultiLevel
           THEN /\ strides = <<8, 16, IF dilation THEN 16 ELSE 32>>
                /\ num_channels = <<512, 1024, 2048>>
           ELSE /\ strides = <<IF dilation THEN 16 ELSE 32>>
                /\ num_channels = <<2048>>

\* a primary extraction of one level on a single-level extractor built with dilation
C3_Witness ==
    /\ pc = "ready"
    /\ ~MultiLevel
    /\ dilation
    /\ call.op = "forward"
    /\ call.status = "ok"
    /\ Len(call.xs) = 1

\* the Joiner's metadata has one entry per returned feature, entry i giving the
\* stride and the channel count of features[i]
MetadataAligned ==
    /\ Len(j_strides) = Len(call.features)
    /\ Len(j_num_channels) = Len(call.features)
    /\ \A i \in 1..Len(call.features) :
        /\ j_strides[i] = call.features[i].tensors.stride
        /\ j_num_channels[i] = call.features[i].tensors.c

\* C4 as stated: the metadata is aligned with the features of every call of
\* Joiner.forward and of Joiner.forward_supp_branch, whatever the flag
C4_AsStated ==
    (call.op \in JoinerOps /\ call.status = "ok") => MetadataAligned

\* C4, amended: the metadata is aligned with the features of every call of
\* Joiner.forward, and of Joiner.forward_supp_branch when its flag equals the
\* construction-time mode
C4_MetadataAligned ==
    (/\ call.op \in JoinerOps
     /\ call.status = "ok"
     /\ (call.op = "Joiner.forward" \/ call.flag = MultiLevel)) => MetadataAligned

\* a support-branch Joiner call of three levels on a multi-level extractor built
\* with dilation
C4_Witness ==
    /\ call.op = "Joiner.forward_supp_branch"
    /\ call.status = "ok"
    /\ call.flag
    /\ MultiLevel
    /\ dilation
    /\ Len(call.features) = 3

\* C5: a support-branch extraction returns three levels when its flag is true
\* and one when it is false or left out, whatever the construction-time mode; a primary
\* extraction returns three levels on a multi-level extractor and one on a
\* single-level one, whatever calls came before
C5_LevelCount ==
    /\ \A c \in {first, call} :
        (c.op \in SupportOps /\ c.status = "ok") =>
            /\ Len(c.xs) = (IF c.flag THEN 3 ELSE 1)
            /\ c.omitted => Len(c.xs) = 1
    /\ \A c \in {first, call} :
        (c.op \in PrimaryOps /\ c.status = "ok") => Len(c.xs) = (IF MultiLevel THEN 3 ELSE 1)

\* on a multi-level extractor, a support call without a flag returned one
\* level and a later primary call on the same batch returned three
C5_Witness ==
    /\ MultiLevel
    /\ first.op = "support_encoding_net"
    /\ first.omitted
    /\ Len(first.xs) = 1
    /\ call.op = "forward"
    /\ call.x = first.x
    /\ Len(call.xs) = 3

\* two calls of the same operation on the same input with the same flag
SameCall(a, b) ==
    a.op # "none" /\ a.op = b.op /\ a.x = b.x /\ a.flag = b.flag /\ a.omitted = b.omitted

\* two calls returned the same: the same dict (or the same error) from the
\* extractor, the same features and positions from the Joiner
SameReturn(a, b) ==
    /\ a.status = b.status
    /\ Range(a.xs) = Range(b.xs)
    /\ a.features = b.features
    /\ a.pos = b.pos

\* C9: an extraction call, primary or support-branch, leaves the normalisation
\* buffers, eps, the tapped stages, the strides and the channel counts as they
\* were, and returns what the first call of the same operation on the same
\* input returned, whatever calls were made in between
C9_CallsAreStateless ==
    [][pc = "ready" =>
        /\ UNCHANGED <<weight, bias, running_mean, running_var, eps>>
        /\ UNCHANGED <<return_layers, dilation, strides, num_channels, j_strides, j_num_channels>>
        /\ (SameCall(first', call') => SameReturn(first', call'))]_vars

\* a Joiner call repeated on the same batch, its levels handed over in another
\* order the second time, after a first call that returned levels
C9_Witness ==
    /\ first.op = "Joiner.forward_supp_branch"
    /\ first.status = "ok"
    /\ SameCall(first, call)
    /\ call.xs # first.xs
    /\ Len(call.features) = 3

\* the trunk stage tapped under a level key in the constructed mode
TappedStage(key) ==
    IF MultiLevel
    THEN CASE key = "0" -> "layer2" [] key = "1" -> "layer3" [] key = "2" -> "layer4"
    ELSE "layer4"

\* the stem and the stages in depth order, up to a stage
StagesThrough(stage) == SubSeq(Children, 1, CHOOSE i \in 1..Len(Children) : Children[i] = stage)

\* C10: a support-branch extraction whose flag equals the construction-time mode
\* returns the levels the primary extraction returns on the same input: the same
\* keys, each bound to the activation of the same tapped stage, reached through
\* the stem and the stages in depth order, with the same resized mask
C10_SupportEqualsPrimary ==
    \A a, b \in {first, call} :
        (/\ a.x = b.x
         /\ a.status = "ok"
         /\ b.flag = MultiLevel
         /\ \/ a.op = "forward" /\ b.op = "support_encoding_net"
            \/ a.op = "Joiner.forward" /\ b.op = "Joiner.forward_supp_branch") =>
            /\ b.status = "ok"
            /\ Range(b.xs) = Range(a.xs)
            /\ b.features = a.features
            /\ \A it \in Range(b.xs) :
                it.value.tensors.path = StagesThrough(TappedStage(it.key))

\* a multi-level extractor gave three levels on the primary path and then on
\* the support path, for the same batch
C10_Witness ==
    /\ MultiLevel
    /\ first.op = "forward"
    /\ first.status = "ok"
    /\ call.op = "support_encoding_net"
    /\ call.flag
    /\ call.x = first.x
    /\ Len(call.xs) = 3

\* C7: a load reports and leaves what nn.Module's load of the same state_dict
\* without the module's num_batches_tracked key reports and leaves: the same
\* buffers, the same missing keys, the same unexpected keys, the counter key not
\* among them
C7_LegacyKeyIgnored ==
    loaded.called =>
        LET counter == Key(OwnPrefix, "num_batches_tracked")
            sd == loaded.state_dict
            without == [key \in DOMAIN sd \ {counter} |-> sd[key]]
            ref == ModuleLoadFromStateDict(loaded.before, without, OwnPrefix, loaded.strict)
        IN /\ counter \notin loaded.unexpected_keys
           /\ Buffers(weight, bias, running_mean, running_var) = ref.buffers
           /\ loaded.missing_keys = ref.missing_keys
           /\ loaded.unexpected_keys = ref.unexpected_keys

\* a strict load of a state_dict holding the counter key and a new weight
C7_Witness ==
    /\ loaded.called
    /\ loaded.strict
    /\ Key(OwnPrefix, "num_batches_tracked") \in DOMAIN loaded.state_dict
    /\ Key(OwnPrefix, "weight") \in DOMAIN loaded.state_dict
    /\ weight = Fin(2 * FUnit)
    /\ weight # loaded.before.weight

\* the case of C8: a forward call with a variance that is not negative, a
\* positive eps and finite weight, bias, mean and input
C8_Case ==
    /\ bn_out.called
    /\ IsFinite(running_var) /\ running_var.v >= 0
    /\ IsFinite(eps) /\ eps.v > 0
    /\ IsFinite(weight) /\ IsFinite(bias) /\ IsFinite(running_mean)
    /\ IsFinite(bn_out.x)

\* C8 as stated: in that case the output is finite
C8_AsStated == C8_Case => IsFinite(bn_out.y)

\* C8, amended: in that case the reciprocal square root is finite and not
\* negative, and the output is finite when weight, bias, mean and input are at
\* most 1 in magnitude, so that no product or sum overflows
C8_RootIsFinite ==
    C8_Case =>
        /\ IsFinite(bn_out.rs)
        /\ bn_out.rs.v >= 0
        /\ (\A a \in {weight, bias, running_mean, bn_out.x} : Abs(a.v) <= FUnit)
              => IsFinite(bn_out.y)

\* a forward call with a zero variance and unit weight and input
C8_Witness ==
    /\ C8_Case
    /\ running_var = Fin(0)
    /\ weight = Fin(FUnit)
    /\ bn_out.x = Fin(FUnit)
    /\ bn_out.scale.v > FUnit
    /\ IsFinite(bn_out.y)

====
